---- MODULE Spec2Model ----
(***************************************************************************)
(* TVAgent v3.2 (src/unnamed/part_000): the connection-lifecycle manager.  *)
(* One process, one event loop.  Every handler (transport event, timer     *)
(* callback, HTTP response, signal) runs to completion, so each is one     *)
(* action.  The program's globals are the variables; the timers the event  *)
(* loop holds and the transports that were created are kept beside the     *)
(* handles the program keeps to them, so that a timer or a transport the   *)
(* program lost track of is still there to be counted.                     *)
(*                                                                         *)
(* Time is counted in steps of PING_INTERVAL.  lastActivityTime is kept as *)
(* idleTime = Date.now() - lastActivityTime, saturated above the stale     *)
(* threshold.  Interval timers carry the time left until they are due; a   *)
(* timer never fires early but may fire late (the event loop gives no      *)
(* upper bound).  The one-shot reconnect timer and the ping/health timers  *)
(* are never armed together, so its firing time is left open and only its  *)
(* delay is recorded.                                                      *)
(***************************************************************************)
EXTENDS Integers, Sequences, FiniteSets, TLC

VARIABLES
  ws,                  \* the transport the global `ws` refers to, or NoSocket
  released,            \* transports the program no longer refers to, as left
  pingTimer,           \* handle: "null", "live" (names an armed timer), "dead"
  healthCheckInterval, \* handle, as above
  reconnectTimer,      \* handle, as above
  armed,               \* the event loop: armed timers of each kind
  due,                 \* the event loop: ms until the ping / health timer is due
  isReconnecting,
  isRegistered,
  reconnectAttempts,
  idleTime,            \* Date.now() - lastActivityTime, saturated
  reconnectDelay,      \* delay of the last reconnect timer armed
  regInFlight,         \* axios.post calls awaiting their response
  phase,               \* "load", "running", "exited"
  exitCode,
  lockFile,            \* the lock file exists
  unlockCalls,         \* termux-wake-unlock invocations
  unlinkCalls,         \* removals of the lock file
  cleanupCalls,        \* cleanup() invocations
  event,               \* the handler that ran last, with its input
  effects              \* the I/O that handler performed, in order

vars == <<ws, released, pingTimer, healthCheckInterval, reconnectTimer, armed, due,
          isReconnecting, isRegistered, reconnectAttempts, idleTime, reconnectDelay,
          regInFlight, phase, exitCode, lockFile, unlockCalls, unlinkCalls,
          cleanupCalls, event, effects>>

\* ------------------------------------------------------------------ constants
PING_INTERVAL == 60000
RECONNECT_DELAY_MIN == 5000
RECONNECT_DELAY_MAX == 300000
MAX_RECONNECT_ATTEMPTS == 100

HealthPeriod == PING_INTERVAL * 2
StaleAfter == PING_INTERVAL * 3

tvId == "TV-ABCD1234"

\* ------------------------------------------------------------------ bounds
MaxIdleTicks == 4     \* idleTime saturates at MaxIdleTicks * PING_INTERVAL
MaxInFlight == 2      \* registration calls awaiting a response at one time
ExactPowBits == 16    \* 2^k is computed exactly up to this k

Min(a, b) == IF a <= b THEN a ELSE b

\* ------------------------------------------------------------------ transports
NoSocket == [readyState |-> "NONE", listeners |-> FALSE, terminated |-> FALSE]
NewSocket == [readyState |-> "CONNECTING", listeners |-> TRUE, terminated |-> FALSE]

\* Mutant: the transport is closed with its listeners still attached.
ReleaseKeepsListeners(sock) ==
  [sock EXCEPT !.readyState = IF sock.readyState \in {"OPEN", "CONNECTING"}
                              THEN "CLOSING" ELSE sock.readyState]

\* ws.removeAllListeners(); if OPEN or CONNECTING, ws.close()
Release(sock) ==
  [sock EXCEPT !.listeners = FALSE,
               !.readyState = IF sock.readyState \in {"OPEN", "CONNECTING"}
                              THEN "CLOSING" ELSE sock.readyState]

\* What is kept of a transport once `ws` no longer refers to it.
Discarded(sock) == [readyState |-> sock.readyState, listeners |-> sock.listeners]

\* ------------------------------------------------------------------ program state
Cur ==
  [ws |-> ws, released |-> released, pingTimer |-> pingTimer,
   healthCheckInterval |-> healthCheckInterval, reconnectTimer |-> reconnectTimer,
   armed |-> armed, due |-> due, isReconnecting |-> isReconnecting,
   isRegistered |-> isRegistered, reconnectAttempts |-> reconnectAttempts,
   idleTime |-> idleTime, reconnectDelay |-> reconnectDelay,
   regInFlight |-> regInFlight, phase |-> phase, exitCode |-> exitCode,
   lockFile |-> lockFile, unlockCalls |-> unlockCalls, unlinkCalls |-> unlinkCalls,
   cleanupCalls |-> cleanupCalls,
   event |-> event, effects |-> effects]

Commit(s) ==
  \E v \in {s} :
    /\ ws' = v.ws
    /\ released' = v.released
    /\ pingTimer' = v.pingTimer
    /\ healthCheckInterval' = v.healthCheckInterval
    /\ reconnectTimer' = v.reconnectTimer
    /\ armed' = v.armed
    /\ due' = v.due
    /\ isReconnecting' = v.isReconnecting
    /\ isRegistered' = v.isRegistered
    /\ reconnectAttempts' = v.reconnectAttempts
    /\ idleTime' = v.idleTime
    /\ reconnectDelay' = v.reconnectDelay
    /\ regInFlight' = v.regInFlight
    /\ phase' = v.phase
    /\ exitCode' = v.exitCode
    /\ lockFile' = v.lockFile
    /\ unlockCalls' = v.unlockCalls
    /\ unlinkCalls' = v.unlinkCalls
    /\ cleanupCalls' = v.cleanupCalls
    /\ event' = v.event
    /\ effects' = v.effects

\* A handler starts: what ran before is forgotten.
Begin(s, ev) == [s EXCEPT !.event = ev, !.effects = <<>>]

Emit(s, e) == [s EXCEPT !.effects = Append(@, e)]

\* ------------------------------------------------------------------ timers
\* clearInterval / clearTimeout on the handle of `kind`: the timer it names, if
\* still armed, leaves the event loop.
\* Mutant: the handle is dropped but the timer stays in the event loop.
ClearTimerLeaks(s, kind, handle) == s

ClearTimer(s, kind, handle) ==
  IF handle = "live"
  THEN [s EXCEPT !.armed[kind] = @ - 1,
                 !.due = IF kind \in DOMAIN @ THEN [@ EXCEPT ![kind] = 0] ELSE @]
  ELSE s

\* setInterval / setTimeout: one more armed timer of `kind`.
ArmTimer(s, kind, period) ==
  [s EXCEPT !.armed[kind] = @ + 1,
            !.due = IF kind \in DOMAIN @ THEN [@ EXCEPT ![kind] = period] ELSE @]

Dead(handle) == IF handle = "live" THEN "dead" ELSE handle

\* ------------------------------------------------------------------ cleanup()
cleanup(s) ==
  LET s1 == IF s.pingTimer # "null"
            THEN [ClearTimer(s, "ping", s.pingTimer) EXCEPT !.pingTimer = Dead(@)]
            ELSE s
      s2 == IF s1.reconnectTimer # "null"
            THEN [ClearTimer(s1, "reconnect", s1.reconnectTimer)
                    EXCEPT !.reconnectTimer = Dead(@)]
            ELSE s1
      s3 == IF s2.ws # NoSocket THEN [s2 EXCEPT !.ws = Release(@)] ELSE s2
      s4 == IF s3.lockFile
            THEN [s3 EXCEPT !.lockFile = FALSE, !.unlinkCalls = @ + 1]
            ELSE s3
  IN  [s4 EXCEPT !.unlockCalls = @ + 1, !.cleanupCalls = @ + 1]

\* process.exit(code): the "exit" listener (cleanup) runs, then the process ends.
processExit(s, code) ==
  [cleanup(s) EXCEPT !.phase = "exited", !.exitCode = code]

\* ------------------------------------------------------------------ backoff
RECURSIVE Pow2(_)
Pow2(k) == IF k = 0 THEN 1 ELSE 2 * Pow2(k - 1)

\* Math.min(RECONNECT_DELAY_MIN * Math.pow(2, n - 1), RECONNECT_DELAY_MAX).
\* The product is exact in a double for every n up to MAX_RECONNECT_ATTEMPTS;
\* here the exponent is held at ExactPowBits, above which the product already
\* exceeds RECONNECT_DELAY_MAX, so that it stays within 32-bit integers.
\* Mutant: the delay is not capped at RECONNECT_DELAY_MAX.
BackoffDelayUncapped(n) ==
  RECONNECT_DELAY_MIN * Pow2(Min(n - 1, ExactPowBits))

BackoffDelay(n) ==
  Min(RECONNECT_DELAY_MIN * Pow2(Min(n - 1, ExactPowBits)), RECONNECT_DELAY_MAX)

\* ------------------------------------------------------------------ scheduleReconnect()
\* The steps after the two guards: count, compute the delay, clear, arm.
scheduleNext(s) ==
  LET n  == s.reconnectAttempts + 1
      s1 == [s EXCEPT !.isReconnecting = TRUE, !.reconnectAttempts = n]
      s2 == IF s1.pingTimer # "null"
            THEN [ClearTimer(s1, "ping", s1.pingTimer) EXCEPT !.pingTimer = "null"]
            ELSE s1
      s3 == IF s2.healthCheckInterval # "null"
            THEN [ClearTimer(s2, "health", s2.healthCheckInterval)
                    EXCEPT !.healthCheckInterval = "null"]
            ELSE s2
      s4 == IF s3.reconnectTimer # "null"
            THEN ClearTimer(s3, "reconnect", s3.reconnectTimer)
            ELSE s3
  IN  [ArmTimer(s4, "reconnect", BackoffDelay(n))
         EXCEPT !.reconnectTimer = "live", !.reconnectDelay = BackoffDelay(n)]

\* Mutant: no check that a reconnect is already pending.
scheduleReconnectUnguarded(s) ==
  IF s.reconnectAttempts >= MAX_RECONNECT_ATTEMPTS
  THEN processExit(cleanup(s), 1)
  ELSE scheduleNext(s)

\* Mutant: no stop after MAX_RECONNECT_ATTEMPTS.
scheduleReconnectUnbounded(s) ==
  IF s.isReconnecting THEN s ELSE scheduleNext(s)

scheduleReconnect(s) ==
  IF s.isReconnecting THEN s
  ELSE IF s.reconnectAttempts >= MAX_RECONNECT_ATTEMPTS
  THEN processExit(cleanup(s), 1)
  ELSE scheduleNext(s)

\* ------------------------------------------------------------------ connect()
\* constructed = FALSE: new WebSocket(...) throws.
connect(s, constructed) ==
  LET s1 == IF s.ws # NoSocket
            THEN [s EXCEPT !.released = @ \cup {Discarded(Release(s.ws))},
                           !.ws = NoSocket]
            ELSE s
  IN  IF constructed
      THEN [s1 EXCEPT !.ws = NewSocket]
      ELSE scheduleReconnect(s1)

\* ------------------------------------------------------------------ events, effects
NoMsg == [kind |-> "none", type |-> "none", target |-> "none", command |-> "none"]

Ev(type, msg, n) == [type |-> type, msg |-> msg, n |-> n]

Eff(op, type, arg) == [op |-> op, type |-> type, arg |-> arg]

\* ------------------------------------------------------------------ sendKey()
COMMAND_MAP ==
  [sleep |-> "223", wake |-> "224", power |-> "26",
   volup |-> "24", voldown |-> "25", mute |-> "164"]

\* Names every object literal inherits from Object.prototype; looking one up
\* yields a function, which is truthy.
InheritedNames == {"toString", "constructor", "hasOwnProperty", "valueOf"}

\* COMMAND_MAP[command]: an own entry, an inherited member, or undefined.
Lookup(command) ==
  IF command \in DOMAIN COMMAND_MAP THEN COMMAND_MAP[command]
  ELSE IF command \in InheritedNames THEN "[function " \o command \o "]"
  ELSE "undefined"

\* const code = COMMAND_MAP[command] || command
KeyCode(command) ==
  IF Lookup(command) # "undefined" THEN Lookup(command) ELSE command

sendKey(s, command) == Emit(s, Eff("exec", "keyevent", KeyCode(command)))

\* ------------------------------------------------------------------ registerToServer()
\* Mutant: the POST is started whether or not registration was confirmed.
registerToServerAlways(s) ==
  [Emit(s, Eff("post", "registertv", "")) EXCEPT !.regInFlight = @ + 1]

\* Up to the await: nothing when registered, else the POST is started.
registerToServer(s) ==
  IF s.isRegistered THEN s
  ELSE [Emit(s, Eff("post", "registertv", "")) EXCEPT !.regInFlight = @ + 1]

\* Mutant: a rejected POST is treated as a lost connection.
registerResponseReconnects(s, ok) ==
  IF ok
  THEN [s EXCEPT !.regInFlight = @ - 1, !.isRegistered = TRUE]
  ELSE scheduleReconnect([s EXCEPT !.regInFlight = @ - 1])

\* After the await: the response (ok) or the rejection.
registerResponse(s, ok) ==
  [s EXCEPT !.regInFlight = @ - 1,
            !.isRegistered = IF ok THEN TRUE ELSE @]

\* ------------------------------------------------------------------ ws.on("open")
\* Mutant: the counters are not reset on a successful connection.
onOpenNoReset(s) ==
  LET s2 == Emit([s EXCEPT !.idleTime = 0], Eff("send", "register", ""))
      s3 == registerToServer(s2)
      s4 == IF s3.pingTimer # "null"
            THEN [ClearTimer(s3, "ping", s3.pingTimer) EXCEPT !.pingTimer = "null"]
            ELSE s3
      s5 == IF s4.healthCheckInterval # "null"
            THEN [ClearTimer(s4, "health", s4.healthCheckInterval)
                    EXCEPT !.healthCheckInterval = "null"]
            ELSE s4
      s6 == [ArmTimer(s5, "ping", PING_INTERVAL) EXCEPT !.pingTimer = "live"]
  IN  [ArmTimer(s6, "health", HealthPeriod) EXCEPT !.healthCheckInterval = "live"]

onOpen(s) ==
  LET s1 == [s EXCEPT !.reconnectAttempts = 0, !.isReconnecting = FALSE,
                      !.idleTime = 0]
      s2 == Emit(s1, Eff("send", "register", ""))
      s3 == registerToServer(s2)
      s4 == IF s3.pingTimer # "null"
            THEN [ClearTimer(s3, "ping", s3.pingTimer) EXCEPT !.pingTimer = "null"]
            ELSE s3
      s5 == IF s4.healthCheckInterval # "null"
            THEN [ClearTimer(s4, "health", s4.healthCheckInterval)
                    EXCEPT !.healthCheckInterval = "null"]
            ELSE s4
      s6 == [ArmTimer(s5, "ping", PING_INTERVAL) EXCEPT !.pingTimer = "live"]
  IN  [ArmTimer(s6, "health", HealthPeriod) EXCEPT !.healthCheckInterval = "live"]

\* ------------------------------------------------------------------ ping interval
\* sent = FALSE: ws.send (or building the payload) throws.
\* Mutant: the ping is sent when the transport is open and nothing else is done.
onPingTimerSilent(s, sent) ==
  IF s.ws # NoSocket /\ s.ws.readyState = "OPEN" /\ sent
  THEN [Emit(s, Eff("send", "ping", "")) EXCEPT !.idleTime = 0]
  ELSE s

onPingTimer(s, sent) ==
  IF s.ws # NoSocket /\ s.ws.readyState = "OPEN"
  THEN IF sent
       THEN [Emit(s, Eff("send", "ping", "")) EXCEPT !.idleTime = 0]
       ELSE scheduleReconnect(s)
  ELSE scheduleReconnect(s)

\* ws.terminate(): the socket is destroyed; "close" is emitted later.
Terminate(sock) ==
  [sock EXCEPT !.terminated = TRUE,
               !.readyState = IF @ = "CLOSED" THEN @ ELSE "CLOSING"]

\* ------------------------------------------------------------------ health check
\* Mutant: the stale transport is terminated and the reconnect left to its
\* close event.
onHealthCheckTerminateOnly(s) ==
  IF s.idleTime > StaleAfter /\ s.ws # NoSocket
  THEN [Emit(s, Eff("terminate", "", "")) EXCEPT !.ws = Terminate(@)]
  ELSE s

onHealthCheck(s) ==
  IF s.idleTime > StaleAfter
  THEN LET s1 == IF s.ws # NoSocket
                 THEN [Emit(s, Eff("terminate", "", "")) EXCEPT !.ws = Terminate(@)]
                 ELSE s
       IN  scheduleReconnect(s1)
  ELSE s

\* ------------------------------------------------------------------ reconnect timer
\* Mutant: isReconnecting is left set when the timer fires.
onReconnectTimerKeepsFlag(s, constructed) == connect(s, constructed)

onReconnectTimer(s, constructed) ==
  connect([s EXCEPT !.isReconnecting = FALSE], constructed)

\* ------------------------------------------------------------------ ws.on("message")
\* Mutant: the activity time is updated only once the payload has decoded.
onMessageDecodeFirst(s, m) ==
  IF m.kind = "malformed" THEN s
  ELSE LET s1 == [s EXCEPT !.idleTime = 0]
       IN  IF m.type = "welcome" \/ m.type = "pong" THEN s1
           ELSE IF m.target = tvId \/ m.target = "all"
           THEN LET s2 == sendKey(s1, m.command)
                IN  IF s2.ws # NoSocket /\ s2.ws.readyState = "OPEN"
                    THEN Emit(s2, Eff("send", "confirm", m.command))
                    ELSE s2
           ELSE s1

onMessage(s, m) ==
  LET s1 == [s EXCEPT !.idleTime = 0]
  IN  IF m.kind = "malformed" THEN s1
      ELSE IF m.type = "welcome" THEN s1
      ELSE IF m.type = "pong" THEN s1
      ELSE IF m.target = tvId \/ m.target = "all"
      THEN LET s2 == sendKey(s1, m.command)
           IN  IF s2.ws # NoSocket /\ s2.ws.readyState = "OPEN"
               THEN Emit(s2, Eff("send", "confirm", m.command))
               ELSE s2
      ELSE s1

\* ------------------------------------------------------------------ ws.on("close"), ("error")
\* Mutant: the close event is only logged.
onCloseLogsOnly(s) == s

onClose(s) == scheduleReconnect(s)

onError(s) == s

\* ------------------------------------------------------------------ ws.on("ping"), ("pong")
onFramePing(s) ==
  LET s1 == [s EXCEPT !.idleTime = 0]
  IN  IF s1.ws.readyState = "OPEN" THEN Emit(s1, Eff("send", "pong", "")) ELSE s1

onFramePong(s) == [s EXCEPT !.idleTime = 0]

\* ------------------------------------------------------------------ SIGINT / SIGTERM
onSignal(s) == processExit(cleanup(s), 0)

\* ------------------------------------------------------------------ inputs
Types == {"welcome", "pong", "none"}
Targets == {tvId, "all", "TV-OTHER"}
Commands == {"sleep", "mute", "home", "toString"}

Malformed == [kind |-> "malformed", type |-> "none", target |-> "none", command |-> "none"]

\* A welcome or a pong may carry a target and a command as well.
Messages ==
  {Malformed}
  \cup [kind : {"json"}, type : {"none"}, target : Targets, command : Commands]
  \cup [kind : {"json"}, type : Types \ {"none"}, target : {tvId, "TV-OTHER"},
        command : {"sleep"}]

\* ------------------------------------------------------------------ initial state
\* The globals as the module body leaves them, before the connect() that ends it.
Init ==
  /\ ws = NoSocket
  /\ released = {}
  /\ pingTimer = "null"
  /\ healthCheckInterval = "null"
  /\ reconnectTimer = "null"
  /\ armed = [ping |-> 0, health |-> 0, reconnect |-> 0]
  /\ due = [ping |-> 0, health |-> 0]
  /\ isReconnecting = FALSE
  /\ isRegistered = FALSE
  /\ reconnectAttempts = 0
  /\ idleTime = 0
  /\ reconnectDelay = 0
  /\ regInFlight = 0
  /\ phase = "load"
  /\ exitCode = 0
  /\ lockFile = TRUE
  /\ unlockCalls = 0
  /\ unlinkCalls = 0
  /\ cleanupCalls = 0
  /\ event = Ev("load", NoMsg, 0)
  /\ effects = <<>>

Running == phase = "running"

\* The transport `ws` refers to can still emit to the program's handlers.
Listening == ws # NoSocket /\ ws.listeners

\* ------------------------------------------------------------------ actions
\* connect() at the end of the module body.
Start ==
  /\ phase = "load"
  /\ \E constructed \in BOOLEAN :
       Commit([connect(Begin(Cur, Ev("start", NoMsg, 0)), constructed)
                 EXCEPT !.phase = IF @ = "load" THEN "running" ELSE @])

\* The handshake completes: "open" is emitted.
TransportOpen ==
  /\ Running /\ Listening /\ ws.readyState = "CONNECTING"
  /\ isRegistered \/ regInFlight < MaxInFlight
  /\ Commit(onOpen([Begin(Cur, Ev("open", NoMsg, reconnectAttempts))
                      EXCEPT !.ws.readyState = "OPEN"]))

\* The peer starts the closing handshake: readyState becomes CLOSING.
TransportClosing ==
  /\ Running /\ Listening /\ ws.readyState = "OPEN"
  /\ Commit([Begin(Cur, Ev("closing", NoMsg, 0)) EXCEPT !.ws.readyState = "CLOSING"])

\* The socket is gone: "close" is emitted, once per transport.
TransportClose ==
  /\ Running /\ Listening /\ ws.readyState \in {"CONNECTING", "OPEN", "CLOSING"}
  /\ Commit(onClose([Begin(Cur, Ev("close", NoMsg, 0))
                       EXCEPT !.ws.readyState = "CLOSED"]))

TransportError ==
  /\ Running /\ Listening /\ ws.readyState \in {"CONNECTING", "OPEN", "CLOSING"}
  /\ Commit(onError(Begin(Cur, Ev("error", NoMsg, 0))))

\* A data frame arrives; frames already received are still delivered while CLOSING.
Message ==
  /\ Running /\ Listening /\ ws.readyState \in {"OPEN", "CLOSING"}
  /\ \E m \in Messages : Commit(onMessage(Begin(Cur, Ev("message", m, 0)), m))

FramePing ==
  /\ Running /\ Listening /\ ws.readyState \in {"OPEN", "CLOSING"}
  /\ Commit(onFramePing(Begin(Cur, Ev("framePing", NoMsg, 0))))

FramePong ==
  /\ Running /\ Listening /\ ws.readyState \in {"OPEN", "CLOSING"}
  /\ Commit(onFramePong(Begin(Cur, Ev("framePong", NoMsg, 0))))

\* An interval timer that fired is due again one period later, if still armed.
Rearm(s, kind, period) ==
  IF s.armed[kind] > 0 /\ s.phase = "running"
  THEN [s EXCEPT !.due[kind] = period]
  ELSE s

PingTimerFire ==
  /\ Running /\ armed.ping > 0 /\ due.ping = 0
  /\ \E sent \in BOOLEAN :
       Commit(Rearm(onPingTimer(Begin(Cur, Ev("pingTimer", NoMsg, 0)), sent),
                    "ping", PING_INTERVAL))

HealthCheckFire ==
  /\ Running /\ armed.health > 0 /\ due.health = 0
  /\ Commit(Rearm(onHealthCheck(Begin(Cur, Ev("healthCheck", NoMsg, idleTime))),
                  "health", HealthPeriod))

\* The one-shot timer fires and leaves the event loop.
ReconnectTimerFire ==
  /\ Running /\ armed.reconnect > 0
  /\ \E constructed \in BOOLEAN :
       Commit(onReconnectTimer(
                [Begin(Cur, Ev("reconnectTimer", NoMsg, 0))
                   EXCEPT !.armed.reconnect = @ - 1, !.reconnectTimer = Dead(@)],
                constructed))

RegisterResponse ==
  /\ Running /\ regInFlight > 0
  /\ \E ok \in BOOLEAN :
       Commit(registerResponse(
                Begin(Cur, Ev(IF ok THEN "registered" ELSE "registerFailed", NoMsg, 0)),
                ok))

Signal ==
  /\ Running
  /\ Commit(onSignal(Begin(Cur, Ev("signal", NoMsg, 0))))

Less(x, d) == IF x > d THEN x - d ELSE 0

\* PING_INTERVAL ms pass.  Time is read only by the interval timers and by the
\* health check they run, so it is advanced only while one of them is armed.
Tick ==
  /\ Running
  /\ armed.ping > 0 \/ armed.health > 0
  /\ Commit([Begin(Cur, Ev("tick", NoMsg, 0)) EXCEPT
               !.idleTime = Min(@ + PING_INTERVAL, MaxIdleTicks * PING_INTERVAL),
               !.due = [k \in DOMAIN @ |-> Less(@[k], PING_INTERVAL)]])

Next ==
  \/ Start
  \/ TransportOpen
  \/ TransportClosing
  \/ TransportClose
  \/ TransportError
  \/ Message
  \/ FramePing
  \/ FramePong
  \/ PingTimerFire
  \/ HealthCheckFire
  \/ ReconnectTimerFire
  \/ RegisterResponse
  \/ Signal
  \/ Tick

Spec == Init /\ [][Next]_vars

\* The event loop runs every armed timer's callback once it is due, and time
\* passes.  What the peer and the network do is under no obligation.
FairSpec ==
  /\ Spec
  /\ WF_vars(Tick)
  /\ WF_vars(PingTimerFire)
  /\ WF_vars(HealthCheckFire)
  /\ WF_vars(ReconnectTimerFire)

\* ================================================================== properties
Kinds == {"ping", "health", "reconnect"}

Handle(kind) ==
  CASE kind = "ping" -> pingTimer
    [] kind = "health" -> healthCheckInterval
    [] kind = "reconnect" -> reconnectTimer

\* C1: at every instant at most one reconnect timer, one ping timer and one
\* health-check timer is armed, and each armed timer is the one its handle
\* names: a timer is never armed while its predecessor is still armed.
C1_OneTimerOfEachKind ==
  \A k \in Kinds :
    /\ armed[k] <= 1
    /\ armed[k] = (IF Handle(k) = "live" THEN 1 ELSE 0)

\* Ping and health timers armed anew by an open that followed a reconnect.
C1_Witness ==
  /\ event.type = "open" /\ released # {} /\ event.n >= 2
  /\ armed = [ping |-> 1, health |-> 1, reconnect |-> 0]

\* C2: at most one transport has listeners attached, and every transport that
\* connect() replaced had its listeners removed and, if it was open or
\* connecting, close requested, before the new one was created.
C2_OneLiveTransport ==
  /\ \A r \in released : ~r.listeners /\ r.readyState \in {"CLOSING", "CLOSED"}
  /\ Cardinality({r \in released : r.listeners}) + (IF ws.listeners THEN 1 ELSE 0) <= 1

\* A new transport created after one that was still open was released.
C2_Witness ==
  /\ event.type = "reconnectTimer" /\ ws = NewSocket
  /\ [readyState |-> "CLOSING", listeners |-> FALSE] \in released

\* C3: scheduleReconnect() called while a reconnect is pending changes nothing,
\* so a second call right after a first has the effect of the first alone; the
\* close event that arrives while a reconnect is pending leaves attempts, the
\* timers, the delay and the process untouched.
C3_ScheduleIdempotent ==
  /\ [](Running =>
          /\ (isReconnecting => scheduleReconnect(Cur) = Cur)
          /\ (scheduleReconnect(Cur).phase = "running" =>
                scheduleReconnect(scheduleReconnect(Cur)) = scheduleReconnect(Cur)))
  /\ [][(isReconnecting /\ event'.type = "close") =>
          /\ isReconnecting'
          /\ UNCHANGED <<reconnectAttempts, reconnectDelay, armed, due, pingTimer,
                         healthCheckInterval, reconnectTimer, phase, exitCode,
                         cleanupCalls>>]_vars

\* A close handled while the reconnect armed for that transport was pending.
C3_Witness ==
  /\ event.type = "close" /\ ws.terminated /\ isReconnecting
  /\ reconnectAttempts = 1 /\ armed.reconnect = 1

\* C4: right after an open event attempts is 0 and isReconnecting is false,
\* whatever the number of reconnects scheduled before it.
C4_OpenResets ==
  event.type = "open" => reconnectAttempts = 0 /\ ~isReconnecting

\* An open that followed MAX_RECONNECT_ATTEMPTS scheduled reconnects.
C4_Witness ==
  /\ event.type = "open" /\ event.n = MAX_RECONNECT_ATTEMPTS
  /\ reconnectAttempts = 0

\* C5: attempts never exceeds MAX_RECONNECT_ATTEMPTS; scheduleReconnect() reached
\* with no reconnect pending and attempts at the maximum tears down and exits
\* with status 1 instead of scheduling; after that no timer is armed, the
\* transport is released, and nothing runs again.
C5_ExhaustionIsTerminal ==
  /\ [](reconnectAttempts <= MAX_RECONNECT_ATTEMPTS)
  /\ []((phase = "exited" /\ exitCode = 1) =>
          /\ reconnectAttempts = MAX_RECONNECT_ATTEMPTS
          /\ armed = [ping |-> 0, health |-> 0, reconnect |-> 0]
          /\ ~ws.listeners /\ ws.readyState \notin {"OPEN", "CONNECTING"}
          /\ ~lockFile /\ unlockCalls >= 1 /\ cleanupCalls >= 1)
  /\ [][(/\ Running /\ reconnectAttempts >= MAX_RECONNECT_ATTEMPTS
         /\ \/ event'.type = "close" /\ ~isReconnecting
            \/ event'.type = "reconnectTimer" /\ ws' = NoSocket)
        => (phase' = "exited" /\ exitCode' = 1 /\ armed'.reconnect = 0
            /\ reconnectAttempts' = reconnectAttempts)]_vars
  /\ [][phase = "exited" => FALSE]_vars

\* The process exited with status 1 from the exhausted scheduleReconnect().
C5_Witness ==
  /\ phase = "exited" /\ exitCode = 1
  /\ reconnectAttempts = MAX_RECONNECT_ATTEMPTS

\* ceil(m / 2^k), by k halvings rounded up.
RECURSIVE CeilShift(_, _)
CeilShift(m, k) == IF k = 0 \/ m <= 1 THEN m ELSE CeilShift((m + 1) \div 2, k - 1)

\* min(minDelay * 2^(n-1), maxDelay): the cap applies exactly when
\* minDelay >= ceil(maxDelay / 2^(n-1)); below it the product is less than maxDelay.
SpecDelay(n) ==
  IF RECONNECT_DELAY_MIN >= CeilShift(RECONNECT_DELAY_MAX, n - 1)
  THEN RECONNECT_DELAY_MAX
  ELSE RECONNECT_DELAY_MIN * Pow2(n - 1)

DelayTable == <<5000, 10000, 20000, 40000, 80000, 160000, 300000>>

\* C6: for every attempts value n >= 1 the delay armed by scheduleReconnect() is
\* min(minDelay * 2^(n-1), maxDelay); it is 5000, 10000, 20000, 40000, 80000,
\* 160000, 300000 for n = 1..7; and it does not decrease as n grows.
C6_BackoffDelay ==
  /\ [](reconnectAttempts >= 1 =>
          /\ reconnectDelay = SpecDelay(reconnectAttempts)
          /\ (reconnectAttempts <= Len(DelayTable) =>
                reconnectDelay = DelayTable[reconnectAttempts]))
  /\ [][(reconnectAttempts >= 1 /\ reconnectAttempts' = reconnectAttempts + 1) =>
          reconnectDelay' >= reconnectDelay]_vars

\* The seventh consecutive reconnect is armed with the capped delay.
C6_Witness ==
  /\ reconnectAttempts = 7 /\ armed.reconnect = 1 /\ isReconnecting
  /\ reconnectDelay = RECONNECT_DELAY_MAX

\* C7: a health check that finds the open transport idle for more than
\* 3 x PING_INTERVAL terminates it and schedules a reconnect; from then until
\* connect() replaces the transport exactly one reconnect has been scheduled,
\* the close event of the terminated transport included.
C7_StaleReconnectsOnce ==
  /\ [][(/\ event'.type = "healthCheck" /\ idleTime > StaleAfter
         /\ ws.readyState = "OPEN") =>
          /\ ws'.terminated /\ ws'.readyState = "CLOSING"
          /\ isReconnecting' /\ reconnectAttempts' = reconnectAttempts + 1
          /\ armed' = [ping |-> 0, health |-> 0, reconnect |-> 1]]_vars
  /\ [][(event'.type = "healthCheck" /\ idleTime <= StaleAfter) =>
          UNCHANGED <<ws, isReconnecting, reconnectAttempts, armed>>]_vars
  /\ []((Running /\ ws.terminated) =>
          reconnectAttempts = 1 /\ isReconnecting /\ armed.reconnect = 1)

\* The close event of a transport the health check terminated has been handled.
C7_Witness ==
  /\ event.type = "close" /\ ws.terminated /\ ws.readyState = "CLOSED"
  /\ reconnectAttempts = 1 /\ armed.reconnect = 1 /\ phase = "running"

HasPost(effs) == \E i \in 1..Len(effs) : effs[i].op = "post"

\* C8: isRegistered only ever goes from false to true, and once it is true no
\* registration POST is started again, whatever opens and reconnects follow.
C8_RegisterOnceConfirmed ==
  /\ [][isRegistered => isRegistered']_vars
  /\ [][isRegistered => (regInFlight' <= regInFlight /\ ~HasPost(effects'))]_vars
  /\ [][HasPost(effects') <=>
          (event'.type = "open" /\ ~isRegistered /\ regInFlight' = regInFlight + 1)]_vars

\* An open, after a reconnect, that started no POST because registration was
\* confirmed.
C8_Witness ==
  /\ isRegistered /\ event.type = "open" /\ event.n >= 1
  /\ ~HasPost(effects) /\ regInFlight = 0

\* Everything but the activity time, the last event and its effects.
CoreVars ==
  <<ws, released, pingTimer, healthCheckInterval, reconnectTimer, armed, due,
    isReconnecting, isRegistered, reconnectAttempts, reconnectDelay, regInFlight,
    phase, exitCode, lockFile, unlockCalls, unlinkCalls, cleanupCalls>>

MalformedHandled(ev) == ev.type = "message" /\ ev.msg.kind = "malformed"

\* C9 as stated: a payload that fails to decode changes no state at all, the
\* activity time included; nothing is dispatched, sent or scheduled.
C9_AsStated ==
  [][MalformedHandled(event') =>
       (UNCHANGED CoreVars /\ UNCHANGED idleTime /\ effects' = <<>>)]_vars

\* C9 (amended): a payload that fails to decode updates the activity time (the
\* update precedes the decoding) and changes nothing else: no command is
\* dispatched, no Confirm is sent, no reconnect is scheduled.
C9_MalformedOnlyBumpsActivity ==
  [][MalformedHandled(event') =>
       (UNCHANGED CoreVars /\ idleTime' = 0 /\ effects' = <<>>)]_vars

\* A malformed payload was handled on an open transport whose ping timer was
\* overdue and whose health check was pending.
C9_Witness ==
  /\ MalformedHandled(event) /\ ws.readyState = "OPEN"
  /\ idleTime = 0 /\ due.ping = 0 /\ armed.health = 1 /\ ~isReconnecting

\* The code the command table gives for a known name, the raw value otherwise.
SpecCode(command) ==
  IF command \in DOMAIN COMMAND_MAP THEN COMMAND_MAP[command] ELSE command

IsCommandFor(m) ==
  m.type \notin {"welcome", "pong"} /\ (m.target = tvId \/ m.target = "all")

SpecEffects(m, open) ==
  IF IsCommandFor(m)
  THEN <<Eff("exec", "keyevent", SpecCode(m.command))>>
       \o (IF open THEN <<Eff("send", "confirm", m.command)>> ELSE <<>>)
  ELSE <<>>

\* C10: for every decoded message the executor is invoked, with the table code
\* of a known name or the raw value of an unknown one, iff the message is
\* neither Welcome nor Pong and its target is the device id or "all"; then a
\* Confirm is sent exactly when the transport is open; otherwise nothing.
C10_DispatchRule ==
  (event.type = "message" /\ event.msg.kind = "json") =>
    effects = SpecEffects(event.msg, ws.readyState = "OPEN")

\* The same rule for the names that are not members of Object.prototype.
DispatchRuleOwnNames ==
  (/\ event.type = "message" /\ event.msg.kind = "json"
   /\ event.msg.command \notin InheritedNames) =>
    effects = SpecEffects(event.msg, ws.readyState = "OPEN")

\* C11: over every shutdown path the wake-lock release and the removal of the
\* lock file are each performed once, however many times the teardown runs.
C11_ReleasedExactlyOnce ==
  phase = "exited" => (unlockCalls = 1 /\ unlinkCalls = 1 /\ ~lockFile)

\* C12: once the teardown has run no timer is armed (ping, health check and
\* reconnect are all cancelled), no listener is attached to the transport, and
\* the transport is not left open or connecting.
C12_TeardownLeavesNothing ==
  cleanupCalls >= 1 =>
    /\ armed = [ping |-> 0, health |-> 0, reconnect |-> 0]
    /\ ~ws.listeners
    /\ ws.readyState \notin {"OPEN", "CONNECTING"}

\* C13: while running, whenever the transport is open exactly one ping timer
\* and at most one health-check timer are armed, and whenever it is connecting
\* or a reconnect is pending neither a ping timer nor a health-check timer is
\* armed.
C13_TimersIffOpen ==
  Running =>
    /\ (ws.readyState = "OPEN" => (armed.ping = 1 /\ armed.health <= 1))
    /\ ((ws.readyState = "CONNECTING" \/ isReconnecting) =>
          (armed.ping = 0 /\ armed.health = 0))

\* C14: a rejected registration POST changes nothing but the count of calls in
\* flight: transport, attempts, isReconnecting, the timers and isRegistered are
\* as before; and an open that finds registration unconfirmed starts the POST.
C14_RegisterFailureIsLocal ==
  /\ [][event'.type = "registerFailed" =>
          /\ UNCHANGED <<ws, released, pingTimer, healthCheckInterval,
                         reconnectTimer, armed, due, isReconnecting, isRegistered,
                         reconnectAttempts, reconnectDelay, idleTime, phase,
                         exitCode, lockFile, unlockCalls, unlinkCalls, cleanupCalls>>
          /\ regInFlight' = regInFlight - 1
          /\ effects' = <<>>]_vars
  /\ [][(event'.type = "open" /\ ~isRegistered) =>
          (HasPost(effects') /\ regInFlight' = regInFlight + 1)]_vars

\* A POST was rejected while the transport was open with its timers armed and
\* registration is still unconfirmed.
C14_Witness ==
  /\ event.type = "registerFailed" /\ ~isRegistered /\ regInFlight = 0
  /\ ws.readyState = "OPEN" /\ armed.ping = 1 /\ armed.health = 1
  /\ ~isReconnecting

\* C15: from the moment a reconnect is scheduled the transport has no listeners
\* and is neither open nor connecting, so no message is handled while a
\* reconnect is pending.
C15_DiscardedAtTransition ==
  /\ (Running /\ isReconnecting) =>
       (~ws.listeners /\ ws.readyState \notin {"OPEN", "CONNECTING"})
  /\ event.type = "message" => ~isReconnecting

\* A command dispatched by the old transport while a reconnect was pending.
CommandWhilePending ==
  /\ event.type = "message" /\ isReconnecting
  /\ \E i \in 1..Len(effects) : effects[i].op = "exec"

HasSend(effs, type) ==
  \E i \in 1..Len(effs) : effs[i].op = "send" /\ effs[i].type = type

Scheduled ==
  /\ isReconnecting' /\ reconnectAttempts' = reconnectAttempts + 1
  /\ armed' = [ping |-> 0, health |-> 0, reconnect |-> 1]
  /\ reconnectTimer' = "live"

\* C18: a close event calls scheduleReconnect() (a reconnect is scheduled, or at
\* the maximum the process exits, or one is pending already); an error event
\* changes nothing; a ping timer that finds the transport not open, or whose
\* send fails, schedules a reconnect with the transport left as it is.
C18_EventRouting ==
  /\ [][event'.type = "close" =>
          /\ ws'.readyState = "CLOSED"
          /\ (~isReconnecting /\ reconnectAttempts < MAX_RECONNECT_ATTEMPTS)
               => Scheduled
          /\ (~isReconnecting /\ reconnectAttempts >= MAX_RECONNECT_ATTEMPTS)
               => (phase' = "exited" /\ exitCode' = 1)
          /\ isReconnecting => UNCHANGED <<isReconnecting, reconnectAttempts, armed>>
       ]_vars
  /\ [][event'.type = "error" =>
          (UNCHANGED CoreVars /\ UNCHANGED idleTime /\ effects' = <<>>)]_vars
  /\ [][event'.type = "pingTimer" =>
          IF HasSend(effects', "ping")
          THEN /\ ws.readyState = "OPEN" /\ idleTime' = 0
               /\ UNCHANGED <<ws, isReconnecting, reconnectAttempts, armed>>
          ELSE Scheduled /\ ws' = ws /\ effects' = <<>>]_vars

\* The ping send failed on an open transport: a reconnect is pending although
\* no close event occurred.
C18_Witness ==
  /\ event.type = "pingTimer" /\ effects = <<>>
  /\ ws.readyState = "OPEN" /\ ws.listeners
  /\ isReconnecting /\ armed.reconnect = 1 /\ reconnectAttempts = 1

\* C19: while the process runs isReconnecting is true exactly when a reconnect
\* timer is armed, and an open event never occurs while one is armed.
C19_FlagIffTimerArmed ==
  /\ [](Running =>
          (isReconnecting <=> (armed.reconnect = 1 /\ reconnectTimer = "live")))
  /\ [][event'.type = "open" =>
          (~isReconnecting /\ armed.reconnect = 0
           /\ ~isReconnecting' /\ armed'.reconnect = 0)]_vars

\* An open on the transport created by a reconnect timer that has fired.
C19_Witness ==
  /\ event.type = "open" /\ event.n >= 1
  /\ reconnectTimer = "dead" /\ armed.reconnect = 0 /\ ~isReconnecting

\* C20: at most one registration call succeeds in a process lifetime: a success
\* never arrives once registration is confirmed.
C20_OneRegistrationSucceeds ==
  [][event'.type = "registered" => ~isRegistered]_vars

\* The transport reports open, no reconnect is pending, and the last thing that
\* happened came from the program's own timers or its HTTP call: nothing was
\* received, no close was surfaced.
HalfOpenQuiet ==
  /\ Running /\ ws.readyState = "OPEN" /\ ~isReconnecting
  /\ event.type \in {"open", "tick", "pingTimer", "healthCheck",
                     "registered", "registerFailed"}

\* C16: a half-open connection is eventually detected: the transport does not
\* stay open and silent for ever without the health check terminating it and
\* a reconnect being scheduled.
C16_HalfOpenDetected == []<>(~HalfOpenQuiet)

\* The connection is down: no transport, a closed one, or one the health check
\* terminated.
Disconnected == ws = NoSocket \/ ws.readyState = "CLOSED" \/ ws.terminated

\* A reconnect is pending: the flag is set and the one-shot timer is armed.
ReconnectPending == isReconnecting /\ armed.reconnect = 1

\* C17: while the process runs, a connection that is down always has a
\* reconnect timer pending; a pending reconnect timer can fire, stays pending
\* until it fires or the process ends, and when it fires connect() runs: a new
\* transport is constructed, or construction fails and the next reconnect is
\* pending or the attempts are exhausted.  Weak fairness of the timer then
\* gives the connect() call.
C17_FailureLeadsToConnect ==
  /\ []((Running /\ Disconnected) => ReconnectPending)
  /\ []((Running /\ ReconnectPending) => ENABLED ReconnectTimerFire)
  /\ [][(Running /\ ReconnectPending /\ ~ReconnectPending')
          => (event'.type = "reconnectTimer" \/ phase' = "exited")]_vars
  /\ [][event'.type = "reconnectTimer"
          => \/ ws' = NewSocket
             \/ ws' = NoSocket /\ (ReconnectPending' \/ phase' = "exited")]_vars

\* connect() ran from the reconnect timer after a transport had closed.
C17_Witness ==
  /\ event.type = "reconnectTimer" /\ ws = NewSocket /\ reconnectAttempts >= 1
  /\ [readyState |-> "CLOSED", listeners |-> FALSE] \in released

====
